---- MODULE Spec2Model ----
(***************************************************************************)
(* Model of the media server (server.js): an Express application that      *)
(* stores uploaded files under STORAGE_DIR/<folder>/<id><ext>, deletes     *)
(* them by public url, and reports per-folder statistics.                  *)
(*                                                                         *)
(* Strings are sequences of chunks.  A chunk is a run of characters that   *)
(* no operation of the program ever splits ("uploads", "-evil", "jpg");    *)
(* the characters the program inspects one by one, "/" and ".", are        *)
(* chunks of their own.  "/data/uploads-evil" is therefore                 *)
(* <<"/","data","/","uploads","-evil">>, and String.prototype.startsWith   *)
(* is the prefix relation on such sequences.                               *)
(***************************************************************************)
EXTENDS Integers, Sequences, FiniteSets, TLC

VARIABLES files, req, resp, wrote, unlinked, stored

vars == <<files, req, resp, wrote, unlinked, stored>>

(***************************************************************************)
(* Bounds of the model.                                                    *)
(***************************************************************************)
\* identifiers generateId can return in the model (1..NumIds)
NumIds == 2
\* largest number of files of one /upload/multiple request
MaxBatch == 2
\* uploads are accepted by the model while at most this many files exist under the root
MaxStored == 2

(***************************************************************************)
(* Program constants.                                                      *)
(***************************************************************************)
API_KEY == "media-server-secret-key"

STORAGE_DIR == <<"/", "data", "/", "uploads">>

FOLDERS == <<"avatars", "news", "store", "sliders", "videos", "general">>

IMAGE_TYPES == <<"image/jpeg", "image/png", "image/gif", "image/webp", "image/svg+xml">>

VIDEO_TYPES == <<"video/mp4", "video/webm", "video/quicktime", "video/x-msvideo">>

ALLOWED_TYPES == IMAGE_TYPES \o VIDEO_TYPES

\* limits: { fileSize: 50 * 1024 * 1024 }
FileSizeLimit == 50 * 1024 * 1024

\* upload.array('files', 10)
MaxCount == 10

\* the working directory of the process (WORKDIR /app), used by path.resolve
Cwd == <<"/", "app">>

(***************************************************************************)
(* Strings.                                                                *)
(***************************************************************************)
\* F(x), with x evaluated once before F is applied to its value
Strict(x, F(_)) == CHOOSE y \in {F(v) : v \in {x}} : TRUE

Range(s) == {s[i] : i \in 1..Len(s)}

Includes(list, x) == x \in Range(list)

\* String.prototype.startsWith
StartsWith(s, p) == Len(p) <= Len(s) /\ SubSeq(s, 1, Len(p)) = p

\* String.prototype.indexOf, 1-based; 0 when pat does not occur
IndexOf(str, pat) ==
  Strict(str, LAMBDA s :
    Strict({i \in 1..(Len(s) - Len(pat) + 1) : SubSeq(s, i, i + Len(pat) - 1) = pat},
           LAMBDA hits : IF hits = {} THEN 0 ELSE CHOOSE i \in hits : \A j \in hits : i <= j))

\* String.prototype.replace(pat, rep) with a string pattern: the first occurrence only
Replace(str, pat, rep) ==
  Strict(str, LAMBDA s :
    Strict(IndexOf(s, pat), LAMBDA i :
      IF i = 0 THEN s
      ELSE SubSeq(s, 1, i - 1) \o rep \o SubSeq(s, i + Len(pat), Len(s))))

\* String.prototype.toLowerCase on the chunks the model uses
LowerChunk(c) ==
  CASE c = "PNG" -> "png"
    [] c = "JPG" -> "jpg"
    [] OTHER -> c

ToLowerCase(s) == [i \in 1..Len(s) |-> LowerChunk(s[i])]

(***************************************************************************)
(* Node's path module (posix).                                             *)
(***************************************************************************)
RECURSIVE SplitSegs(_)
\* the segments of s between "/" separators, empty segments included
SplitSegs(str) ==
  Strict(str, LAMBDA s :
    Strict(IndexOf(s, <<"/">>), LAMBDA i :
      IF i = 0 THEN <<s>>
      ELSE <<SubSeq(s, 1, i - 1)>> \o SplitSegs(SubSeq(s, i + 1, Len(s)))))

DotDot == <<".", ".">>

\* one step of normalizeString: s is dropped when "" or ".", resolved against
\* the segment before it when "..", appended otherwise
NormalizeStep(acc, s, allowAboveRoot) ==
  IF s = <<>> \/ s = <<".">> THEN acc
  ELSE IF s = DotDot
       THEN IF acc # <<>> /\ acc[Len(acc)] # DotDot
            THEN SubSeq(acc, 1, Len(acc) - 1)
            ELSE IF allowAboveRoot THEN Append(acc, s) ELSE acc
       ELSE Append(acc, s)

RECURSIVE NormalizeSegs(_, _, _)
\* normalizeString over the segments, acc the segments kept so far
NormalizeSegs(segments, kept, allowAboveRoot) ==
  Strict(segments, LAMBDA segs :
    Strict(kept, LAMBDA acc :
      IF segs = <<>> THEN acc
      ELSE NormalizeSegs(Tail(segs), NormalizeStep(acc, Head(segs), allowAboveRoot),
                         allowAboveRoot)))

RECURSIVE JoinSegs(_)
JoinSegs(segments) ==
  Strict(segments, LAMBDA segs :
    IF segs = <<>> THEN <<>>
    ELSE IF Len(segs) = 1 THEN segs[1]
    ELSE segs[1] \o <<"/">> \o JoinSegs(Tail(segs)))

IsAbsolute(p) == Len(p) > 0 /\ p[1] = "/"

\* path.normalize
Normalize(path) ==
  Strict(path, LAMBDA p :
    IF Len(p) = 0 THEN <<".">>
    ELSE Strict(JoinSegs(NormalizeSegs(SplitSegs(p), <<>>, ~IsAbsolute(p))), LAMBDA body :
           LET abs == IsAbsolute(p)
               trailing == p[Len(p)] = "/"
           IN IF body = <<>>
              THEN (IF abs THEN <<"/">> ELSE IF trailing THEN <<".", "/">> ELSE <<".">>)
              ELSE (IF abs THEN <<"/">> ELSE <<>>) \o body
                     \o (IF trailing THEN <<"/">> ELSE <<>>)))

RECURSIVE JoinArgs(_)
JoinArgs(arguments) ==
  Strict(arguments, LAMBDA args :
    IF args = <<>> THEN <<>>
    ELSE Strict(JoinArgs(Tail(args)), LAMBDA rest :
           IF Len(Head(args)) = 0 THEN rest
           ELSE IF rest = <<>> THEN Head(args)
           ELSE Head(args) \o <<"/">> \o rest))

\* path.join(...args), computed
PosixJoin(args) ==
  Strict(JoinArgs(args), LAMBDA joined :
    IF joined = <<>> THEN <<".">> ELSE Normalize(joined))

\* path.resolve(p), computed: absolute, normalized, no trailing separator
PosixResolve(path) ==
  Strict(path, LAMBDA p :
    Strict(IF IsAbsolute(p) THEN p ELSE Cwd \o <<"/">> \o p, LAMBDA full :
      <<"/">> \o JoinSegs(NormalizeSegs(SplitSegs(full), <<>>, FALSE))))

\* the last segment of p
Basename(p) ==
  Strict(SplitSegs(p), LAMBDA segs : segs[Len(segs)])

\* path.extname: from the last "." of the basename, "" for none or a leading one
ExtName(p) ==
  Strict(Basename(p), LAMBDA b :
    Strict({i \in 1..Len(b) : b[i] = "."}, LAMBDA dots :
      IF dots = {} \/ b = DotDot THEN <<>>
      ELSE LET i == CHOOSE k \in dots : \A j \in dots : j <= k
           IN IF i = 1 THEN <<>> ELSE SubSeq(b, i, Len(b))))

(***************************************************************************)
(* The names of stored files and their urls.                               *)
(***************************************************************************)
\* generateId(): the hex rendering of 16 random bytes
generateId(n) == "id" \o ToString(n)

\* path.extname(originalname).toLowerCase() || '.jpg'
ExtOf(file) ==
  LET e == ToLowerCase(ExtName(file.originalname))
  IN IF e # <<>> THEN e ELSE <<".", "jpg">>

\* a variant that names the file after the client's file name
FilenameFromClient(id, file) == ToLowerCase(Basename(file.originalname))

\* `${generateId()}${ext}`
Filename(id, file) == <<generateId(id)>> \o ExtOf(file)

\* a variant that leaves the folder out of the url
MediaUrlNoFolder(folder, filename) == <<"/", "uploads", "/">> \o filename

\* `/uploads/${folder}/${filename}`
MediaUrl(folder, filename) == <<"/", "uploads", "/", folder, "/">> \o filename

(***************************************************************************)
(* The files, identifiers and urls that requests carry.                    *)
(***************************************************************************)
Ids == 1..NumIds

\* <<x-api-key header, key query parameter>>, "" for an absent one
AuthInputs ==
  { <<API_KEY, "">>, <<"", API_KEY>>, <<"wrong-key", API_KEY>>, <<"", "wrong-key">>, <<"", "">> }

FolderInputs == {"", "videos", "evil"}

BigSize == FileSizeLimit + 1

UploadFiles ==
  { [originalname |-> <<"photo">>, mimetype |-> "image/png",
     buffer |-> [data |-> "a", size |-> 1]],
    [originalname |-> <<"clip", ".", "JPG">>, mimetype |-> "video/mp4",
     buffer |-> [data |-> "b", size |-> 2]],
    [originalname |-> <<"page", ".", "JPG">>, mimetype |-> "text/html",
     buffer |-> [data |-> "a", size |-> 1]],
    [originalname |-> <<"photo">>, mimetype |-> "image/png",
     buffer |-> [data |-> "c", size |-> BigSize]] }

Batches == UNION {[1..n -> UploadFiles] : n \in 0..MaxBatch}

EvilPath == STORAGE_DIR \o <<"-evil", "/", "x">>

PasswdPath == <<"/", "etc", "/", "passwd">>

\* the urls the upload handlers can return in the model
ObjectUrls ==
  {MediaUrl(f, <<generateId(i), ".", "jpg">>) : f \in {"general", "videos"}, i \in Ids}

AttackUrls ==
  { <<"/", "uploads", "/", ".", ".", "/", "uploads", "-evil", "/", "x">>,
    <<".", ".", "/", "uploads", "-evil", "/", "x">>,
    <<"/", "uploads", "/", ".", ".", "/", ".", ".", "/", "etc", "/", "passwd">>,
    <<"/", "etc", "/", "passwd">>,
    <<"/", "uploads", "/", ".", ".">>,
    <<"/", "uploads", "/", "videos">>,
    <<"/", "uploads", "/">>,
    <<"/", "uploads", "/", "general", "/", ".", ".", "/", "general", "/", "id1", ".", "jpg">>,
    <<"general", "/", "id1", ".", "jpg">>,
    <<"/", "uploads", "/", "general", "/", "id1", ".", "jpg", "/">>,
    <<"x", "/", "uploads", "/", "general", "/", "id1", ".", "jpg">> }

UrlInputs == ObjectUrls \cup AttackUrls

FallbackUrl == <<"/", "uploads", "/", "videos", "/", "id1", ".", "jpg">>

(***************************************************************************)
(* path.join and path.resolve are pure functions of their arguments.  The  *)
(* values they take on the paths the requests below give rise to are       *)
(* computed once; on any other argument they are computed on the spot.     *)
(***************************************************************************)
UrlPrefix == <<"/", "uploads", "/">>

JoinInputs ==
  {<<STORAGE_DIR, <<d>>>> : d \in Range(FOLDERS)}
    \cup {<<STORAGE_DIR, <<d>>, Filename(i, f)>> : d \in Range(FOLDERS), i \in Ids, f \in UploadFiles}
    \cup {<<STORAGE_DIR, Replace(u, UrlPrefix, <<>>)>> : u \in UrlInputs \cup {FallbackUrl}}

JoinTable == [args \in JoinInputs |-> PosixJoin(args)]

\* path.join(...args)
PathJoin(arguments) ==
  Strict(arguments, LAMBDA args :
    IF args \in JoinInputs THEN JoinTable[args] ELSE PosixJoin(args))

ResolveInputs == {JoinTable[args] : args \in JoinInputs} \cup {STORAGE_DIR}

ResolveTable == [p \in ResolveInputs |-> PosixResolve(p)]

\* path.resolve(p)
PathResolve(path) ==
  Strict(path, LAMBDA p :
    IF p \in ResolveInputs THEN ResolveTable[p] ELSE PosixResolve(p))

(***************************************************************************)
(* The filesystem.  Directories are fixed: unlinkSync cannot remove one    *)
(* and no handler creates one.  files maps the absolute path of every      *)
(* regular file to its content.  A content [data, len, of] is the first    *)
(* len bytes of the buffer named data, whose length is of.                 *)
(***************************************************************************)
Put(f, k, v) == (k :> v) @@ f

Remove(f, k) == [x \in DOMAIN f \ {k} |-> f[x]]

FolderPath(dir) == PathJoin(<<STORAGE_DIR, <<dir>>>>)

\* the directories that exist once the startup loop has run
Dirs ==
  {<<"/">>, <<"/", "data">>, <<"/", "etc">>, Cwd, STORAGE_DIR, STORAGE_DIR \o <<"-evil">>}
    \cup {FolderPath(d) : d \in Range(FOLDERS)}

StripSep(p) == IF Len(p) > 1 /\ p[Len(p)] = "/" THEN SubSeq(p, 1, Len(p) - 1) ELSE p

HasTrailingSep(p) == Len(p) > 1 /\ p[Len(p)] = "/"

\* a variant that reports every path as existing
ExistsSyncAlways(fs, p) == TRUE

\* fs.existsSync
ExistsSync(fs, p) ==
  \/ StripSep(p) \in Dirs
  \/ p \in DOMAIN fs /\ ~HasTrailingSep(p)

\* fs.unlinkSync throws on a directory (EISDIR) and on a missing path (ENOENT)
UnlinkThrows(fs, p) == StripSep(p) \in Dirs \/ p \notin DOMAIN fs

UnlinkSync(fs, p) == Remove(fs, p)

\* the parent directory of a normalized absolute file path
Dirname(p) ==
  Strict({i \in 1..Len(p) : p[i] = "/"}, LAMBDA seps :
    Strict(CHOOSE i \in seps : \A j \in seps : j <= i, LAMBDA last :
      IF last = 1 THEN <<"/">> ELSE SubSeq(p, 1, last - 1)))

\* fs.readdirSync: the entries of a directory (folders hold only regular files)
ReaddirSync(fs, dirPath) == {p \in DOMAIN fs : Dirname(p) = dirPath}

\* fs.statSync(p).size
StatSize(fs, p) == fs[p].len

Complete(buffer) == [data |-> buffer.data, len |-> buffer.size, of |-> buffer.size]

\* fs.writeFileSync(filePath, buffer) under one outcome of the environment:
\*   "ok"      all bytes written
\*   "eacces"  open fails, nothing is created or changed
\*   "enospc"  the file is created or truncated and the write fails part-way,
\*             here with the last byte missing
WriteOutcomes == {"ok", "eacces", "enospc"}

WriteFileSync(fs, p, buffer, outcome) ==
  CASE outcome = "ok" -> [files |-> Put(fs, p, Complete(buffer)), threw |-> FALSE]
    [] outcome = "eacces" -> [files |-> fs, threw |-> TRUE]
    [] OTHER ->
         [files |-> Put(fs, p, [data |-> buffer.data, len |-> buffer.size - 1, of |-> buffer.size]),
          threw |-> TRUE]

(***************************************************************************)
(* Requests and responses.                                                 *)
(***************************************************************************)
NoStats == [folders |-> <<>>, total |-> [files |-> 0, size |-> 0]]

Response(status, message) ==
  [status |-> status, message |-> message, data |-> <<>>, stats |-> NoStats]

\* a variant that accepts the key in either place
authMiddlewareEither(r) == r.hdr = API_KEY \/ r.qry = API_KEY

\* authMiddleware: TRUE when next() is called
authMiddleware(r) ==
  LET key == IF r.hdr # "" THEN r.hdr ELSE r.qry
  IN key = API_KEY

Unauthorized == Response(401, "Unauthorized")

\* a variant without the allow-list
fileFilterAny(file) == TRUE

\* multer fileFilter
fileFilter(file) == Includes(ALLOWED_TYPES, file.mimetype)

\* limits.fileSize
TooLarge(file) == file.buffer.size > FileSizeLimit

\* upload.single('image'): the error handed to the callback ("" for none)
MulterSingleErr(upfiles) ==
  IF Len(upfiles) = 0 THEN ""
  ELSE IF ~fileFilter(upfiles[1]) THEN "File type not allowed"
  ELSE IF TooLarge(upfiles[1]) THEN "File too large"
  ELSE IF Len(upfiles) > 1 THEN "Unexpected field"
  ELSE ""

\* upload.array('files', 10)
MulterArrayErr(upfiles) ==
  LET bad == {i \in 1..Len(upfiles) :
                i > MaxCount \/ ~fileFilter(upfiles[i]) \/ TooLarge(upfiles[i])}
  IN IF bad = {} THEN ""
     ELSE LET i == CHOOSE k \in bad : \A j \in bad : k <= j
          IN IF i > MaxCount THEN "Unexpected field"
             ELSE IF ~fileFilter(upfiles[i]) THEN "File type not allowed"
             ELSE "File too large"

\* req.body.folder || 'general'
FolderOf(r) == IF r.folder # "" THEN r.folder ELSE "general"

\* path.join(STORAGE_DIR, folder, filename)
UploadPath(folder, filename) == PathJoin(<<STORAGE_DIR, <<folder>>, filename>>)

Result(fs, folder, filename) ==
  [url |-> MediaUrl(folder, filename), filename |-> filename,
   size |-> StatSize(fs, UploadPath(folder, filename))]

(***************************************************************************)
(* Handlers.  A handler maps the filesystem and a request (with the        *)
(* identifiers generateId returns and the outcomes of the writes) to the   *)
(* new filesystem and the response.  wrote is the set of paths the         *)
(* handler called writeFileSync on and unlinked the set of paths it        *)
(* removed with unlinkSync; stored maps the path of every object   *)
(* whose upload was answered with success, and that no delete has          *)
(* unlinked since, to the url returned for it.                             *)
(***************************************************************************)
Outcome(fs, st, response, paths) ==
  [files |-> fs, stored |-> st, resp |-> response, wrote |-> paths, unlinked |-> {}]

\* the early return of the upload handlers, status 0 when the write step is reached
UploadReject(r, err, noFile) ==
  IF ~authMiddleware(r) THEN Unauthorized
  ELSE IF err # "" THEN Response(400, err)
  ELSE IF Len(r.upfiles) = 0 THEN Response(400, noFile)
  ELSE IF ~Includes(FOLDERS, FolderOf(r)) THEN Response(400, "Invalid folder")
  ELSE Response(0, "")

SingleReject(r) == UploadReject(r, MulterSingleErr(r.upfiles), "No file provided")

MultipleReject(r) == UploadReject(r, MulterArrayErr(r.upfiles), "No files provided")

\* app.post('/upload')
UploadHandler(fs, st, r, id, outcome) ==
  IF SingleReject(r).status # 0 THEN Outcome(fs, st, SingleReject(r), {})
  ELSE LET folder == FolderOf(r)
           file == r.upfiles[1]
           filename == Filename(id, file)
           filePath == UploadPath(folder, filename)
           w == WriteFileSync(fs, filePath, file.buffer, outcome)
       IN IF w.threw
          THEN Outcome(w.files, st, Response(500, "Failed to upload file"), {filePath})
          ELSE Outcome(w.files,
                       Put(st, filePath, MediaUrl(folder, filename)),
                       [Response(200, "") EXCEPT !.data = <<Result(w.files, folder, filename)>>],
                       {filePath})

\* the file name and path of file i of a batch
BatchFilename(upfiles, ids, i) == Filename(ids[i], upfiles[i])

BatchPath(folder, upfiles, ids, i) == UploadPath(folder, BatchFilename(upfiles, ids, i))

\* the iteration of the for loop whose writeFileSync throws, n + 1 when none does
FirstThrow(outcomes, n) ==
  LET bad == {i \in 1..n : outcomes[i] # "ok"}
  IN IF bad = {} THEN n + 1 ELSE CHOOSE i \in bad : \A j \in bad : i <= j

RECURSIVE LoopFiles(_, _, _, _, _, _)
\* the filesystem after the first i iterations of the for loop of /upload/multiple
LoopFiles(fs, folder, upfiles, ids, outcomes, i) ==
  IF i = 0 THEN fs
  ELSE WriteFileSync(LoopFiles(fs, folder, upfiles, ids, outcomes, i - 1),
                     BatchPath(folder, upfiles, ids, i), upfiles[i].buffer, outcomes[i]).files

RECURSIVE LoopStored(_, _, _, _, _)
LoopStored(st, folder, upfiles, ids, i) ==
  IF i = 0 THEN st
  ELSE Put(LoopStored(st, folder, upfiles, ids, i - 1),
           BatchPath(folder, upfiles, ids, i),
           MediaUrl(folder, BatchFilename(upfiles, ids, i)))

\* the for loop of /upload/multiple: it runs until a write throws; each result
\* holds the size read back right after the file's own write
WriteLoop(fs, st, folder, upfiles, ids, outcomes) ==
  LET n == Len(upfiles)
      k == FirstThrow(outcomes, n)
      last == IF k > n THEN n ELSE k
  IN [files |-> LoopFiles(fs, folder, upfiles, ids, outcomes, last),
      stored |-> LoopStored(st, folder, upfiles, ids, n),
      results |-> [i \in 1..(k - 1) |->
                     Result(LoopFiles(fs, folder, upfiles, ids, outcomes, i), folder,
                            BatchFilename(upfiles, ids, i))],
      wrote |-> {BatchPath(folder, upfiles, ids, i) : i \in 1..last},
      threw |-> k <= n]

\* app.post('/upload/multiple')
MultipleHandler(fs, st, r, ids, outcomes) ==
  IF MultipleReject(r).status # 0 THEN Outcome(fs, st, MultipleReject(r), {})
  ELSE LET l == WriteLoop(fs, st, FolderOf(r), r.upfiles, ids, outcomes)
       IN IF l.threw
          THEN Outcome(l.files, st, Response(500, "Failed to upload files"), l.wrote)
          ELSE Outcome(l.files, l.stored, [Response(200, "") EXCEPT !.data = l.results], l.wrote)

\* imageUrl || url
FileUrl(r) == IF r.imageUrl # <<>> THEN r.imageUrl ELSE r.url

\* a variant that does not strip the public prefix
DeletePathUnstripped(fileUrl) == PathJoin(<<STORAGE_DIR, fileUrl>>)

\* path.join(STORAGE_DIR, fileUrl.replace('/uploads/', ''))
DeletePath(fileUrl) ==
  PathJoin(<<STORAGE_DIR, Replace(fileUrl, UrlPrefix, <<>>)>>)

\* resolvedPath.startsWith(path.resolve(STORAGE_DIR))
PathAllowed(filePath) == StartsWith(PathResolve(filePath), PathResolve(STORAGE_DIR))

\* app.delete('/delete')
DeleteHandler(fs, st, r) ==
  IF ~authMiddleware(r) THEN Outcome(fs, st, Unauthorized, {})
  ELSE IF FileUrl(r) = <<>> THEN Outcome(fs, st, Response(400, "url is required"), {})
  ELSE LET filePath == DeletePath(FileUrl(r))
       IN IF ~PathAllowed(filePath) THEN Outcome(fs, st, Response(400, "Invalid path"), {})
          ELSE IF ExistsSync(fs, filePath)
               THEN IF UnlinkThrows(fs, filePath)
                    THEN Outcome(fs, st, Response(500, "Failed to delete file"), {})
                    ELSE [Outcome(UnlinkSync(fs, filePath),
                                  IF filePath \in DOMAIN st THEN Remove(st, filePath) ELSE st,
                                  Response(200, "File deleted"), {})
                            EXCEPT !.unlinked = {filePath}]
               ELSE Outcome(fs, st, Response(200, "File deleted"), {})

RECURSIVE SumSizes(_, _)
\* dirSize: the sizes of the entries, added up
SumSizes(fs, entries) ==
  Strict(entries, LAMBDA paths :
    IF paths = {} THEN 0
    ELSE Strict(CHOOSE q \in paths : TRUE, LAMBDA p :
           StatSize(fs, p) + SumSizes(fs, paths \ {p})))

\* folderStats[dir] of /stats
FolderStats(fs, dir) ==
  Strict(FolderPath(dir), LAMBDA dirPath :
    IF ExistsSync(fs, dirPath)
    THEN Strict(ReaddirSync(fs, dirPath), LAMBDA entries :
           [files |-> Cardinality(entries), size |-> SumSizes(fs, entries)])
    ELSE [files |-> 0, size |-> 0])

RECURSIVE TotalOf(_, _)
\* totalFiles and totalSize accumulated over the first i folders
TotalOf(folderStats, i) ==
  IF i = 0 THEN [files |-> 0, size |-> 0]
  ELSE Strict(TotalOf(folderStats, i - 1), LAMBDA t :
         [files |-> t.files + folderStats[i].files, size |-> t.size + folderStats[i].size])

\* app.get('/stats')
StatsHandler(fs, st, r) ==
  IF ~authMiddleware(r) THEN Outcome(fs, st, Unauthorized, {})
  ELSE Strict([i \in 1..Len(FOLDERS) |-> FolderStats(fs, FOLDERS[i])], LAMBDA folderStats :
         Outcome(fs, st,
                 [Response(200, "") EXCEPT
                    !.stats = [folders |-> folderStats,
                               total |-> TotalOf(folderStats, Len(FOLDERS))]],
                 {}))

(***************************************************************************)
(* Requests.                                                               *)
(***************************************************************************)
\* the imageUrl and url fields of the body of a delete request, <<>> for an absent one
DeleteBodies ==
  {<<u, <<>>>> : u \in UrlInputs \cup {<<>>}}
    \cup {<<<<>>, FallbackUrl>>, <<<<"/", "uploads", "/", ".", ".">>, FallbackUrl>>}

NoRequest ==
  [op |-> "none", hdr |-> "", qry |-> "", folder |-> "", upfiles |-> <<>>,
   imageUrl |-> <<>>, url |-> <<>>]

UploadRequest(op, hdr, qry, folder, upfiles) ==
  [NoRequest EXCEPT !.op = op, !.hdr = hdr, !.qry = qry, !.folder = folder, !.upfiles = upfiles]

InRoot(p) == StartsWith(p, STORAGE_DIR \o <<"/">>)

RootFiles(fs) == {p \in DOMAIN fs : InRoot(p)}

ValidFile ==
  [originalname |-> <<"photo">>, mimetype |-> "image/png", buffer |-> [data |-> "a", size |-> 1]]

\* upload requests: every folder and batch under the header key, and one
\* valid file under every other way of presenting a key
UploadInputs ==
  {<<<<API_KEY, "">>, folder, upfiles>> : folder \in FolderInputs, upfiles \in Batches}
    \cup {<<a, "", <<ValidFile>>>> : a \in AuthInputs}

\* delete requests: every body under the header key, and the url of one
\* object under every other way of presenting a key
DeleteInputs ==
  {<<<<API_KEY, "">>, b>> : b \in DeleteBodies}
    \cup {<<a, <<FallbackUrl, <<>>>>>> : a \in AuthInputs}

(***************************************************************************)
(* The state machine.  Handlers are synchronous, so a request is handled   *)
(* in one step; EndRequest is the return to the event loop, where the      *)
(* request and response objects are dropped.                               *)
(***************************************************************************)
Init ==
  /\ files = (EvilPath :> [data |-> "x", len |-> 1, of |-> 1])
               @@ (PasswdPath :> [data |-> "p", len |-> 1, of |-> 1])
  /\ req = NoRequest
  /\ resp = Response(0, "")
  /\ wrote = {}
  /\ unlinked = {}
  /\ stored = <<>>

Idle == req.op = "none"

Apply(r, out) ==
  /\ req' = r
  /\ files' = out.files
  /\ stored' = out.stored
  /\ resp' = out.resp
  /\ wrote' = out.wrote
  /\ unlinked' = out.unlinked

Upload ==
  /\ Idle
  /\ \E room \in {MaxStored - Cardinality(RootFiles(files))}, in \in UploadInputs :
       LET r == UploadRequest("upload", in[1][1], in[1][2], in[2], in[3])
       IN /\ Len(in[3]) <= room
          /\ IF SingleReject(r).status # 0
             THEN \E out \in {UploadHandler(files, stored, r, 1, "ok")} : Apply(r, out)
             ELSE \E id \in Ids, outcome \in WriteOutcomes :
                    \E out \in {UploadHandler(files, stored, r, id, outcome)} : Apply(r, out)

\* what the n writes of one batch may do: the loop ends at the first write that
\* throws, so the writes after it never happen
BatchOutcomes(n) ==
  {[i \in 1..n |-> "ok"]}
    \cup {[i \in 1..n |-> IF i = k THEN o ELSE "ok"] : k \in 1..n, o \in WriteOutcomes \ {"ok"}}

UploadMultiple ==
  /\ Idle
  /\ \E room \in {MaxStored - Cardinality(RootFiles(files))}, in \in UploadInputs :
       LET r == UploadRequest("multiple", in[1][1], in[1][2], in[2], in[3])
           n == Len(r.upfiles)
       IN /\ n <= room
          /\ IF MultipleReject(r).status # 0
             THEN \E out \in {MultipleHandler(files, stored, r, <<>>, <<>>)} : Apply(r, out)
             ELSE \E ids \in [1..n -> Ids], outcomes \in BatchOutcomes(n) :
                    \E out \in {MultipleHandler(files, stored, r, ids, outcomes)} : Apply(r, out)

Delete ==
  /\ Idle
  /\ \E in \in DeleteInputs :
       LET r == [NoRequest EXCEPT !.op = "delete", !.hdr = in[1][1], !.qry = in[1][2],
                                  !.imageUrl = in[2][1], !.url = in[2][2]]
       IN \E out \in {DeleteHandler(files, stored, r)} : Apply(r, out)

Stats ==
  /\ Idle
  /\ \E a \in AuthInputs :
       LET r == [NoRequest EXCEPT !.op = "stats", !.hdr = a[1], !.qry = a[2]]
       IN \E out \in {StatsHandler(files, stored, r)} : Apply(r, out)

EndRequest ==
  /\ ~Idle
  /\ req' = NoRequest
  /\ resp' = Response(0, "")
  /\ wrote' = {}
  /\ unlinked' = {}
  /\ UNCHANGED <<files, stored>>

Next == Upload \/ UploadMultiple \/ Delete \/ Stats \/ EndRequest

Spec == Init /\ [][Next]_vars

(***************************************************************************)
(* Vocabulary of the properties.                                           *)
(***************************************************************************)
Uploads == {"upload", "multiple"}

\* the request presents the configured key: in the header, or in the query
\* parameter when there is no header
KeyOk(r) == r.hdr = API_KEY \/ (r.hdr = "" /\ r.qry = API_KEY)

\* the canonical path p is the storage root or lies below it
Contained(p) == p = STORAGE_DIR \/ StartsWith(p, STORAGE_DIR \o <<"/">>)

\* the canonical path a delete reference leads to
Canonical(fileUrl) == PathResolve(DeletePath(fileUrl))

(***************************************************************************)
(* C1.  A delete request whose reference canonicalizes to a path outside   *)
(* the storage root (through "../" segments or a sibling directory such    *)
(* as /data/uploads-evil) is answered 400 'Invalid path' without unlink,   *)
(* and no file outside the storage root is ever removed.                   *)
(***************************************************************************)
C1_EscapeRejected ==
  /\ (req.op = "delete" /\ KeyOk(req) /\ FileUrl(req) # <<>> /\ ~Contained(Canonical(FileUrl(req))))
       => (resp.status = 400 /\ resp.message = "Invalid path" /\ unlinked = {})
  /\ EvilPath \in DOMAIN files
  /\ PasswdPath \in DOMAIN files

(***************************************************************************)
(* C2.  The destination path of an upload holds either no file or the      *)
(* complete uploaded bytes, also after a write that failed part-way.       *)
(***************************************************************************)
C2_DestinationCompleteOrAbsent ==
  \A p \in RootFiles(files) : files[p].len = files[p].of

(***************************************************************************)
(* C3.  When /upload/multiple answers with a failure, no file that the     *)
(* batch wrote completely before the failing one is left under the         *)
(* storage root (no partial commit).                                       *)
(***************************************************************************)
C3_NoPartialCommit ==
  (req.op = "multiple" /\ resp.status # 200)
    => \A p \in wrote : p \in DOMAIN files => files[p].len < files[p].of

(***************************************************************************)
(* C4.  An authenticated upload request (single or multiple) that carries  *)
(* a file whose MIME type is outside the allow-list or whose size exceeds  *)
(* the 50 MiB ceiling, carries no file, or names a folder outside the      *)
(* taxonomy, is answered 400, writes nothing and leaves every file as it   *)
(* was.                                                                    *)
(***************************************************************************)
InvalidFile(file) ==
  file.mimetype \notin Range(ALLOWED_TYPES) \/ file.buffer.size > FileSizeLimit

InvalidUpload(r) ==
  \/ \E i \in 1..Len(r.upfiles) : InvalidFile(r.upfiles[i])
  \/ Len(r.upfiles) = 0
  \/ r.folder # "" /\ r.folder \notin Range(FOLDERS)

C4_InvalidUploadRejected ==
  [][(Idle /\ req'.op \in Uploads /\ KeyOk(req') /\ InvalidUpload(req'))
       => (resp'.status = 400 /\ wrote' = {} /\ files' = files)]_vars

C4_Witness ==
  /\ req.op = "multiple" /\ KeyOk(req) /\ resp.status = 400
  /\ Len(req.upfiles) = 2
  /\ ~InvalidFile(req.upfiles[1])
  /\ req.upfiles[2].mimetype = "text/html"

(***************************************************************************)
(* C5.  After a successful upload every returned url resolves, by the      *)
(* resolution of /delete, to a file the upload wrote; that file holds the  *)
(* uploaded bytes and the size in the response is its size on disk.        *)
(* As stated, for every file of the request.                               *)
(***************************************************************************)
UrlServes(i) ==
  LET p == DeletePath(resp.data[i].url)
  IN /\ Contained(PathResolve(p))
     /\ p \in wrote
     /\ p \in DOMAIN files
     /\ files[p] = Complete(req.upfiles[i].buffer)
     /\ resp.data[i].size = files[p].len

C5_UrlResolvesToWrittenFile ==
  (req.op \in Uploads /\ resp.status = 200)
    => /\ Len(resp.data) = Len(req.upfiles)
       /\ \A i \in 1..Len(resp.data) : UrlServes(i)

(***************************************************************************)
(* C5, amended.  The same for every file of the request whose generated    *)
(* file name was not generated again for a later file of the same batch.   *)
(***************************************************************************)
C5_UrlResolvesUnlessRegenerated ==
  (req.op \in Uploads /\ resp.status = 200)
    => /\ Len(resp.data) = Len(req.upfiles)
       /\ \A i \in 1..Len(resp.data) :
            (\A j \in (i + 1)..Len(resp.data) : resp.data[j].url # resp.data[i].url)
              => UrlServes(i)

C5_Witness ==
  /\ req.op = "multiple" /\ resp.status = 200
  /\ Len(resp.data) = 2
  /\ resp.data[1].url # resp.data[2].url
  /\ resp.data[1].size # resp.data[2].size

(***************************************************************************)
(* C6.  Delete is idempotent.  An authenticated delete whose reference     *)
(* lies inside the storage root and names nothing that exists is answered  *)
(* with success and changes nothing; and after any delete answered with    *)
(* success, the same delete again is answered with success and leaves the  *)
(* store as the first one left it.                                         *)
(***************************************************************************)
NamesNothing(fs, fileUrl) ==
  LET p == DeletePath(fileUrl)
  IN Contained(Canonical(fileUrl)) /\ p \notin DOMAIN fs /\ StripSep(p) \notin Dirs

DeleteOfAbsentSucceeds ==
  (Idle /\ req'.op = "delete" /\ KeyOk(req') /\ FileUrl(req') # <<>>
        /\ NamesNothing(files, FileUrl(req')))
    => (resp'.status = 200 /\ files' = files /\ unlinked' = {})

RepeatedDeleteSucceeds ==
  (req.op = "delete" /\ resp.status = 200)
    => LET again == DeleteHandler(files, stored, req)
       IN again.resp.status = 200 /\ again.files = files /\ again.unlinked = {}

C6_DeleteIdempotent == [][DeleteOfAbsentSucceeds]_vars /\ []RepeatedDeleteSucceeds

C6_Witness ==
  /\ req.op = "delete" /\ resp.status = 200
  /\ unlinked # {}
  /\ NamesNothing(files, FileUrl(req))

(***************************************************************************)
(* C7.  With no request in flight between them, /stats reports for each    *)
(* taxonomy folder the number of objects stored in it and the sum of       *)
(* their sizes, and as totals the sums over the folders.                   *)
(***************************************************************************)
StoredIn(dir) == {p \in DOMAIN stored : Dirname(p) = FolderPath(dir)}

C7_StatsMatchStoredObjects ==
  (req.op = "stats" /\ resp.status = 200)
    => /\ \A i \in 1..Len(FOLDERS) :
            /\ resp.stats.folders[i].files = Cardinality(StoredIn(FOLDERS[i]))
            /\ resp.stats.folders[i].size = SumSizes(files, StoredIn(FOLDERS[i]))
       /\ resp.stats.total.files = Cardinality(DOMAIN stored)
       /\ resp.stats.total.size = SumSizes(files, DOMAIN stored)

IdNames == {"id" \o ToString(n) : n \in Ids}

\* the paths an upload request can write to, whatever generateId returns
Destinations(r) ==
  {STORAGE_DIR \o <<"/", FolderOf(r), "/", name>> \o ExtOf(r.upfiles[i]) :
     name \in IdNames, i \in 1..Len(r.upfiles)}

C9_UnauthenticatedRejected ==
  [][(Idle /\ req'.op \in Uploads \cup {"delete", "stats"} /\ ~KeyOk(req'))
       => /\ resp'.status = 401
          /\ files' = files
          /\ wrote' = {} /\ unlinked' = {}
          /\ resp'.data = <<>> /\ resp'.stats = NoStats]_vars

C9_Witness ==
  /\ req.op = "delete" /\ resp.status = 401
  /\ req.hdr = "wrong-key" /\ req.qry = API_KEY
  /\ DeletePath(FileUrl(req)) \in DOMAIN stored

(***************************************************************************)
(* C10.  The url returned for a stored object resolves to that object's    *)
(* file inside the storage root, so different urls resolve to different    *)
(* files; and a delete given the url of a stored object removes that       *)
(* object and leaves every other file as it was.                           *)
(***************************************************************************)
UrlsResolveInjectively ==
  /\ \A p \in DOMAIN stored : DeletePath(stored[p]) = p /\ Contained(Canonical(stored[p]))
  /\ \A p, q \in DOMAIN stored :
       stored[p] # stored[q] => DeletePath(stored[p]) # DeletePath(stored[q])

DeleteRemovesOnlyItsObject ==
  \A p \in DOMAIN stored :
    (Idle /\ req'.op = "delete" /\ KeyOk(req') /\ FileUrl(req') = stored[p])
      => /\ resp'.status = 200
         /\ unlinked' = {p}
         /\ p \notin DOMAIN files'
         /\ \A q \in DOMAIN files \ {p} : q \in DOMAIN files' /\ files'[q] = files[q]

C10_DeleteByUrlIsExact == []UrlsResolveInjectively /\ [][DeleteRemovesOnlyItsObject]_vars

C10_Witness ==
  /\ req.op = "delete" /\ resp.status = 200
  /\ unlinked # {}
  /\ Cardinality(DOMAIN stored) = 1

====
